---- MODULE Spec2Model ----
(***************************************************************************)
(* BEST Gizmo setup wizard: the application frame loop (app.rs), the three *)
(* wizard pages (pages/*.rs), their background workers and the GitHub      *)
(* release helper (utils/github.rs).                                       *)
(*                                                                         *)
(* Conventions.  Option<T> is a sequence of length at most one.  A Rust    *)
(* string that takes part in formatting, prefix/suffix tests or paths is a *)
(* sequence of tokens; enum tags are TLA+ strings.  A page is a record     *)
(* with the fields of its struct; the absent page is NoPage.  One frame    *)
(* (MyApp::update) is one atomic action; worker threads take their steps   *)
(* between frames.                                                         *)
(***************************************************************************)
EXTENDS Bags, FiniteSets, Integers, Sequences, TLC

VARIABLES current_page, page_error, crashed, orphans, gh_response, gh_result,
          cache_files, dl_log, installed

vars == <<current_page, page_error, crashed, orphans, gh_response, gh_result,
          cache_files, dl_log, installed>>

(* ---------------------------- bounds ----------------------------------- *)

MaxTextLen == 3
MaxOrphans == 1
MaxListLen == 3

(* ---------------------------- Option / Result -------------------------- *)

None == <<>>
Some(v) == <<v>>

Ok(v) == [ok |-> TRUE, val |-> Some(v), err |-> ""]
Err(e) == [ok |-> FALSE, val |-> None, err |-> e]

(* ---------------------------- GitHub releases -------------------------- *)

GithubReleaseAsset(n, u) == [name |-> n, browser_download_url |-> u]

GithubRelease(n, t, a, p, d) ==
    [name |-> n, tag_name |-> t, assets |-> a, prerelease |-> p, draft |-> d,
     latest |-> FALSE]

\* Mutant: the predicate of find() forgets the draft flag.
FindStable_IgnoresDraft(releases) ==
    LET S == {i \in 1..Len(releases) : ~releases[i].prerelease}
    IN IF S = {} THEN 0 ELSE CHOOSE i \in S : \A j \in S : i <= j

\* Index of the first release for which the predicate of find() holds, 0 if none.
FindStable(releases) ==
    LET S == {i \in 1..Len(releases) :
                 ~releases[i].prerelease /\ ~releases[i].draft}
    IN IF S = {} THEN 0 ELSE CHOOSE i \in S : \A j \in S : i <= j

get_releases(response) ==
    IF ~response.ok THEN Err("Failed to fetch releases")
    ELSE LET releases == response.body
             i == FindStable(releases)
         IN IF i = 0 THEN Err("No stable releases found")
            ELSE Ok([releases EXCEPT ![i].latest = TRUE])

\* iter().find(|r| r.latest) on the render thread.
FindLatest(releases) ==
    LET S == {i \in 1..Len(releases) : releases[i].latest}
    IN IF S = {} THEN None
       ELSE Some(releases[CHOOSE i \in S : \A j \in S : i <= j])

\* iter().find(|a| a.name == name)
FindAsset(assets, name) ==
    LET S == {i \in 1..Len(assets) : assets[i].name = name}
    IN IF S = {} THEN None
       ELSE Some(assets[CHOOSE i \in S : \A j \in S : i <= j])

\* download_file: GET url, then create dest_path and write the body to it.
\* requests: the HTTP requests issued; files: the files on disk afterwards.
download_file(url, dest_path, net_ok, files) ==
    IF ~net_ok
    THEN [result |-> Err("Failed to download file"), requests |-> <<url>>, files |-> files]
    ELSE [result |-> Ok("unit"), requests |-> <<url>>, files |-> files \cup {dest_path}]

\* cache_dir.join(repo_owner).join(repo_name).join(release.name).join(asset.name)
DestPath(asset, repo_owner, repo_name, release, cache_dir) ==
    cache_dir \o <<repo_owner, repo_name, release.name, asset.name>>

download_versioned_asset(asset, repo_owner, repo_name, release, cache_dir, net_ok) ==
    LET dest_path == DestPath(asset, repo_owner, repo_name, release, cache_dir)
    IN IF download_file(asset.browser_download_url, dest_path, net_ok, {}).result.ok
       THEN Ok(dest_path)
       ELSE Err("Failed to download file")

(* What the GitHub API may answer for each repository. *)
DsAsset == GithubReleaseAsset(<<"ds-ramdisk.zip">>, "u1")
FwAssetA == GithubReleaseAsset(<<"g", "s", "s", "-", "a", "-", "2", ".", "u", "f", "2">>, "u2")
FwAssetB == GithubReleaseAsset(<<"g", "s", "s", "-", "b", "-", "2", ".", "u", "f", "2">>, "u3")
FwAssetOld == GithubReleaseAsset(<<"g", "s", "s", "-", "a", "-", "1", ".", "u", "f", "2">>, "u4")
ScAsset == GithubReleaseAsset(<<"best-default-program-", "2", ".uf2">>, "u5")

HttpFailure == [ok |-> FALSE, body |-> <<>>]

ApiResponses(repo) ==
    IF repo = "gizmo" THEN
        {HttpFailure,
         [ok |-> TRUE, body |-> <<GithubRelease(<<"v3">>, <<"3">>, <<>>, FALSE, TRUE),
                                  GithubRelease(<<"v2">>, <<"2">>, <<DsAsset>>, FALSE, FALSE)>>],
         [ok |-> TRUE, body |-> <<GithubRelease(<<"v3">>, <<"3">>, <<DsAsset>>, TRUE, FALSE)>>]}
    ELSE IF repo = "firmware" THEN
        {HttpFailure,
         [ok |-> TRUE, body |-> <<GithubRelease(<<"v2">>, <<"2">>,
                                                <<FwAssetA, FwAssetB, FwAssetOld, DsAsset>>,
                                                FALSE, FALSE),
                                  GithubRelease(<<"v1">>, <<"1">>, <<>>, FALSE, FALSE)>>]}
    ELSE
        {HttpFailure,
         [ok |-> TRUE, body |-> <<GithubRelease(<<"v2">>, <<"2">>, <<ScAsset>>, FALSE, FALSE),
                                  GithubRelease(<<"v1">>, <<"1">>, <<ScAsset>>, TRUE, FALSE)>>]}

(* ---------------------------- drives ----------------------------------- *)

DriveInfo(path, label) == [drive_path |-> path, file_system_label |-> label]

DriveA == DriveInfo(<<<<"media">>, <<"user">>, <<"A">>>>, <<"A">>)
DriveB == DriveInfo(<<<<"media">>, <<"user">>, <<"B">>>>, <<"B">>)

\* list_drives(): an error, or the removable volumes currently mounted.
ListDrivesResults == {Err("Listing removable drives failed."),
                      Ok(<<>>), Ok(<<DriveA, DriveB>>)}

CacheDir == <<<<"tmp">>, <<"github_downloads">>>>

(* ---------------------------- worker threads -------------------------- *)

Repo(page) == IF page = "ds" THEN "gizmo"
              ELSE IF page = "fw" THEN "firmware" ELSE "CircuitPython_Gizmo"

\* A spawned closure with the values moved into it.  pc is the statement the
\* thread executes next; log lists the device operations it has invoked.
Worker(page, kind, pc) ==
    [page |-> page, kind |-> kind, pc |-> pc, release |-> None, asset |-> None,
     path |-> None, drive |-> None, team_number |-> <<>>, log |-> <<>>]

is_finished(t) == t.pc \in {"done", "panicked"}

\* Mutant: a panic of the closure is not turned into an error.
join_thread_AlwaysOk(thread) == Ok("unit")

\* JoinHandle::join mapped through join_thread: Err iff the closure panicked.
join_thread(thread) ==
    IF thread.pc = "panicked" THEN Err("Background thread failed") ELSE Ok("unit")

Panicked(w) == [w |-> [w EXCEPT !.pc = "panicked"], msg |-> None]

\* Mutant: the closure returns normally without having sent.
Send_DropsMessage(w, v, connected) ==
    IF connected THEN [w |-> [w EXCEPT !.pc = "sent"], msg |-> None]
    ELSE Panicked(w)

\* tx.send(v).expect(..): panics when the receiver has been dropped.
Send(w, v, connected) ==
    IF connected THEN [w |-> [w EXCEPT !.pc = "sent"], msg |-> Some(v)]
    ELSE Panicked(w)

\* .expect(..) / .unwrap() on the operation's result, then tx.send of its value.
SendResult(w, r, connected) ==
    IF r.ok THEN Send(w, r.val[1], connected) ELSE Panicked(w)

ReleasesClosure(w, connected) ==
    {SendResult(w, get_releases(resp), connected) : resp \in ApiResponses(Repo(w.page))}

DsDownloadClosure(w, connected) ==
    LET thread_release == w.release[1]
        asset == FindAsset(thread_release.assets, <<"ds-ramdisk.zip">>)
    IN IF asset = None THEN {Panicked(w)}
       ELSE {SendResult(w, download_versioned_asset(asset[1], <<"gizmo-platform">>,
                               <<"gizmo">>, thread_release, CacheDir, net_ok), connected)
             : net_ok \in BOOLEAN}

DownloadClosure(w, connected) ==
    {SendResult(w, download_versioned_asset(w.asset[1], <<"gizmo-platform">>,
                      <<Repo(w.page)>>, w.release[1], CacheDir, net_ok), connected)
     : net_ok \in BOOLEAN}

DrivesClosure(w, connected) ==
    {SendResult(w, r, connected) : r \in ListDrivesResults}

Logged(w, op, ok) == [w EXCEPT !.log = Append(@, [op |-> op, ok |-> ok])]

\* format_drive(..).expect; on Linux the mount point is renamed to the new label.
RenamedDrive(drive, team_number) ==
    IF drive = None THEN None
    ELSE Some([drive[1] EXCEPT !.drive_path =
                   SubSeq(@, 1, Len(@) - 1) \o <<<<"GIZMO">> \o team_number>>])

FormatStep(w, ok) ==
    IF ~ok THEN Panicked(Logged(w, "format", FALSE))
    ELSE [w |-> [Logged(w, "format", TRUE)
                 EXCEPT !.pc = "write", !.drive = RenamedDrive(w.drive, w.team_number)],
          msg |-> None]

\* Mutant: a failed extraction does not stop the closure.
WriteStep_IgnoresFailure(w, ok) ==
    [w |-> [Logged(w, "write", ok) EXCEPT !.pc = "flush"], msg |-> None]

\* zip_extract::extract(..).expect
WriteStep(w, ok) ==
    IF ~ok THEN Panicked(Logged(w, "write", FALSE))
    ELSE [w |-> [Logged(w, "write", TRUE) EXCEPT !.pc = "flush"], msg |-> None]

\* write_filesystem_cache(..).expect, then tx.send(())
FlushStep(w, ok, connected) ==
    IF ~ok THEN Panicked(Logged(w, "flush", FALSE))
    ELSE Send(Logged(w, "flush", TRUE), "unit", connected)

DsInstallClosure(w, connected) ==
    IF w.pc = "format" THEN {FormatStep(w, ok) : ok \in BOOLEAN}
    ELSE IF w.pc = "write" THEN {WriteStep(w, ok) : ok \in BOOLEAN}
    ELSE {FlushStep(w, ok, connected) : ok \in BOOLEAN}

\* std::fs::copy(..).unwrap / .expect, then tx.send(())
CopyClosure(w, connected) ==
    {IF ok THEN Send(Logged(w, "copy", TRUE), "unit", connected)
     ELSE Panicked(Logged(w, "copy", FALSE)) : ok \in BOOLEAN}

\* Every way thread w can take its next step.  connected: the receiving end
\* of its channel still exists.
WorkerOutcomes(w, connected) ==
    IF w.pc = "sent" THEN {[w |-> [w EXCEPT !.pc = "done"], msg |-> None]}
    ELSE IF w.kind = "releases" THEN ReleasesClosure(w, connected)
    ELSE IF w.kind = "download" THEN
        (IF w.page = "ds" THEN DsDownloadClosure(w, connected)
         ELSE DownloadClosure(w, connected))
    ELSE IF w.kind = "drives" THEN DrivesClosure(w, connected)
    ELSE IF w.page = "ds" THEN DsInstallClosure(w, connected)
    ELSE CopyClosure(w, connected)

\* The receiver field a worker of the given kind sends to.
ReceiverOf(page, kind) ==
    IF kind = "releases" THEN
        (IF page = "fw" THEN "available_relases_receiver" ELSE "available_releases_receiver")
    ELSE IF kind = "download" THEN "download_finished_receiver"
    ELSE IF kind = "drives" THEN "drive_list_receiver"
    ELSE "install_finished_receiver"

(* ---------------------------- operator input -------------------------- *)

TextChars == {"1", "\n", "x"}

\* The contents of the text box after one keystroke: a character typed at
\* the end, or the last character deleted.
Keystrokes(text) ==
    {Append(text, c) : c \in {d \in TextChars : Len(text) < MaxTextLen}}
        \cup (IF text = <<>> THEN {} ELSE {SubSeq(text, 1, Len(text) - 1)})

\* What the operator and the file system contribute to one frame: at most
\* one click (on widget number idx where a list is shown), at most one edit
\* of the text box, and whether File::open succeeds.
Input(click, idx, text, io_ok) ==
    [click |-> click, idx |-> idx, text |-> text, io_ok |-> io_ok]

NoInput == Input("none", 0, None, TRUE)
Click(c) == Input(c, 0, None, TRUE)

\* Mutant: the guard forgets that a handle is still held.
SlotEmpty_IgnoresHandle(value, thread) == value = None

\* The guard of every fetch, download and enumeration spawn:
\*   if self.<value>.is_none() && self.background_thread.is_none()
SlotEmpty(value, thread) == value = None /\ thread = None

\* Result of Page::run: the page afterwards, the error returned, whether the
\* render thread panicked, and a thread whose JoinHandle was dropped unjoined.
Ran(p) == [p |-> p, err |-> None, panic |-> FALSE, detached |-> None]
Failed(p, e) == [p |-> p, err |-> Some(e), panic |-> FALSE, detached |-> None]
Panic(p) == [p |-> p, err |-> None, panic |-> TRUE, detached |-> None]

\* Mutant: a failed join is swallowed instead of returned with `?`.
TakeJoinRecv_SwallowsFailure(p, rx) ==
    IF p.background_thread = None \/ ~is_finished(p.background_thread[1])
    THEN [p |-> p, err |-> None, taken |-> FALSE, val |-> None]
    ELSE LET thread == p.background_thread[1]
             p1 == [p EXCEPT !.background_thread = None]
         IN IF ~join_thread(thread).ok
            THEN [p |-> p1, err |-> None, taken |-> FALSE, val |-> None]
            ELSE IF p1[rx] = None
            THEN [p |-> p1, err |-> Some("Expected receiver to not be None."),
                  taken |-> TRUE, val |-> None]
            ELSE LET receiver == p1[rx][1]
                     p2 == [p1 EXCEPT ![rx] = None]
                 IN IF receiver = <<>>
                    THEN [p |-> p2, err |-> Some("channel is empty and sending half is closed"),
                          taken |-> TRUE, val |-> None]
                    ELSE [p |-> p2, err |-> None, taken |-> TRUE,
                          val |-> Some(Head(receiver))]

\* The idiom shared by the driver-station and starter-code steps:
\*   if let Some(thread) = self.background_thread.take_if(|t| t.is_finished()) {
\*       join_thread(thread)?;
\*       let receiver = self.<rx>.take().ok_or(..)?;
\*       .. receiver.recv_timeout(1s)? ..
\* taken: a finished handle was taken; val: the received message.
TakeJoinRecv(p, rx) ==
    IF p.background_thread = None \/ ~is_finished(p.background_thread[1])
    THEN [p |-> p, err |-> None, taken |-> FALSE, val |-> None]
    ELSE LET thread == p.background_thread[1]
             p1 == [p EXCEPT !.background_thread = None]
         IN IF ~join_thread(thread).ok
            THEN [p |-> p1, err |-> Some("Background thread failed"),
                  taken |-> TRUE, val |-> None]
            ELSE IF p1[rx] = None
            THEN [p |-> p1, err |-> Some("Expected receiver to not be None."),
                  taken |-> TRUE, val |-> None]
            ELSE LET receiver == p1[rx][1]
                     p2 == [p1 EXCEPT ![rx] = None]
                 IN IF receiver = <<>>
                    THEN [p |-> p2, err |-> Some("channel is empty and sending half is closed"),
                          taken |-> TRUE, val |-> None]
                    ELSE [p |-> p2, err |-> None, taken |-> TRUE,
                          val |-> Some(Head(receiver))]

(* ---------------------------- driver station page ---------------------- *)

DriverStationSetupPage_new ==
    [kind |-> "ds",
     current_step |-> "ChooseVersion",
     available_releases |-> None,
     software_version |-> None,
     archive_path |-> None,
     team_numbers_text |-> <<>>,
     team_numbers |-> <<>>,
     team_number_index |-> 0,
     available_drives |-> None,
     selected_drive |-> None,
     available_releases_receiver |-> None,
     download_finished_receiver |-> None,
     drive_list_receiver |-> None,
     install_finished_receiver |-> None,
     background_thread |-> None]

\* Option<GithubRelease> == Option<GithubRelease>, with
\* impl PartialEq for GithubRelease: equal names.
SameRelease(a, b) ==
    IF a = None \/ b = None THEN a = b ELSE a[1].name = b[1].name

\* The version combo box and the Next button of the ChooseVersion steps.
\* selectable_value assigns only when the current value differs.
RenderChooseVersion(p, in, next_button_enabled, next_step) ==
    LET p1 == IF in.click = "select" /\ p.available_releases # None
                 /\ in.idx \in 1..Len(p.available_releases[1])
                 /\ ~SameRelease(p.software_version, Some(p.available_releases[1][in.idx]))
              THEN [p EXCEPT !.software_version = Some(p.available_releases[1][in.idx])]
              ELSE p
    IN IF in.click = "next" /\ next_button_enabled
       THEN [p1 EXCEPT !.current_step = next_step]
       ELSE p1

\* Mutant: the preselection forgets that a version is already selected.
SelectLatest_AlwaysResets(p) ==
    IF p.available_releases # None
    THEN LET latest == FindLatest(p.available_releases[1])
         IN IF latest = None THEN Failed(p, "Latest release not found")
            ELSE Ran([p EXCEPT !.software_version = latest])
    ELSE Ran(p)

\* Lines 83-93: preselect the release marked latest.
SelectLatest(p) ==
    IF p.available_releases # None /\ p.software_version = None
    THEN LET latest == FindLatest(p.available_releases[1])
         IN IF latest = None THEN Failed(p, "Latest release not found")
            ELSE Ran([p EXCEPT !.software_version = latest])
    ELSE Ran(p)

DsRunChooseVersion(p, in) ==
    LET p1 == IF SlotEmpty(p.available_releases, p.background_thread)
              THEN [p EXCEPT !.available_releases_receiver = Some(<<>>),
                             !.background_thread = Some(Worker("ds", "releases", "run"))]
              ELSE p
        r == TakeJoinRecv(p1, "available_releases_receiver")
    IN IF r.err # None THEN Failed(r.p, r.err[1])
       ELSE LET p2 == IF r.taken THEN [r.p EXCEPT !.available_releases = r.val] ELSE r.p
                s == SelectLatest(p2)
            IN IF s.err # None THEN s
               ELSE Ran(RenderChooseVersion(s.p, in, s.p.software_version # None,
                                            "EnterTeamNumbers"))

\* Mutant: every character is accepted.
TextValid_AcceptsAny(text) == TRUE

\* chars().all(|c| c.is_ascii_digit() || c == '\n')
TextValid(text) == \A i \in 1..Len(text) : text[i] \in {"1", "\n"}

\* lines().filter(|l| !l.is_empty()).collect()
RECURSIVE Lines(_, _)
Lines(text, line) ==
    IF text = <<>> THEN (IF line = <<>> THEN <<>> ELSE <<line>>)
    ELSE IF Head(text) = "\n"
         THEN (IF line = <<>> THEN <<>> ELSE <<line>>) \o Lines(Tail(text), <<>>)
         ELSE Lines(Tail(text), Append(line, Head(text)))

\* Mutant: the Next button is drawn enabled whatever the list holds.
DsRunEnterTeamNumbers_NextAlwaysEnabled(p, in) ==
    LET changed == in.text # None /\ in.text[1] # p.team_numbers_text
        p1 == IF changed THEN [p EXCEPT !.team_numbers_text = in.text[1]] ELSE p
        text_valid == TextValid(p1.team_numbers_text)
        p2 == IF ~text_valid THEN [p1 EXCEPT !.team_numbers = <<>>] ELSE p1
        p3 == IF text_valid /\ changed
              THEN [p2 EXCEPT !.team_numbers = Lines(p2.team_numbers_text, <<>>)]
              ELSE p2
    IN IF in.click = "next"
       THEN Ran([p3 EXCEPT !.current_step = "DownloadArchive"])
       ELSE Ran(p3)

DsRunEnterTeamNumbers(p, in) ==
    LET changed == in.text # None /\ in.text[1] # p.team_numbers_text
        p1 == IF changed THEN [p EXCEPT !.team_numbers_text = in.text[1]] ELSE p
        text_valid == TextValid(p1.team_numbers_text)
        p2 == IF ~text_valid THEN [p1 EXCEPT !.team_numbers = <<>>] ELSE p1
        p3 == IF text_valid /\ changed
              THEN [p2 EXCEPT !.team_numbers = Lines(p2.team_numbers_text, <<>>)]
              ELSE p2
    IN IF in.click = "next" /\ p3.team_numbers # <<>>
       THEN Ran([p3 EXCEPT !.current_step = "DownloadArchive"])
       ELSE Ran(p3)

\* Mutant: the archive path is stored but the step is not advanced.
DsRunDownloadArchive_StaysOnStep(p, in) ==
    LET spawn == SlotEmpty(p.archive_path, p.background_thread)
    IN IF spawn /\ p.software_version = None
       THEN Failed(p, "Expected software_version to not be None.")
       ELSE LET p1 == IF spawn
                      THEN [p EXCEPT !.download_finished_receiver = Some(<<>>),
                                     !.background_thread =
                                         Some([Worker("ds", "download", "run")
                                               EXCEPT !.release = p.software_version])]
                      ELSE p
                r == TakeJoinRecv(p1, "download_finished_receiver")
            IN IF r.err # None THEN Failed(r.p, r.err[1])
               ELSE IF r.taken
               THEN Ran([r.p EXCEPT !.archive_path = r.val])
               ELSE Ran(r.p)

DsRunDownloadArchive(p, in) ==
    LET spawn == SlotEmpty(p.archive_path, p.background_thread)
    IN IF spawn /\ p.software_version = None
       THEN Failed(p, "Expected software_version to not be None.")
       ELSE LET p1 == IF spawn
                      THEN [p EXCEPT !.download_finished_receiver = Some(<<>>),
                                     !.background_thread =
                                         Some([Worker("ds", "download", "run")
                                               EXCEPT !.release = p.software_version])]
                      ELSE p
                r == TakeJoinRecv(p1, "download_finished_receiver")
            IN IF r.err # None THEN Failed(r.p, r.err[1])
               ELSE IF r.taken
               THEN Ran([r.p EXCEPT !.archive_path = r.val, !.current_step = "ChooseDrive"])
               ELSE Ran(r.p)

\* Option<DriveInfo> == Option<DriveInfo>, with impl PartialEq for
\* DriveInfo: equal paths.
SameDrive(a, b) ==
    IF a = None \/ b = None THEN a = b ELSE a[1].drive_path = b[1].drive_path

\* Mutant: the install button is enabled without a selected drive.
RenderChooseDrive_InstallAlwaysEnabled(p, in, next_step) ==
    LET p1 == IF p.available_drives = None THEN p
              ELSE IF in.click = "select" /\ in.idx \in 1..Len(p.available_drives[1])
                      /\ ~SameDrive(p.selected_drive, Some(p.available_drives[1][in.idx]))
              THEN [p EXCEPT !.selected_drive = Some(p.available_drives[1][in.idx])]
              ELSE IF in.click = "refresh"
              THEN [p EXCEPT !.available_drives = None, !.selected_drive = None]
              ELSE p
    IN IF in.click = "next"
       THEN [p1 EXCEPT !.current_step = next_step]
       ELSE p1

\* Mutant: Refresh clears the selection but keeps the listed drives.
RenderChooseDrive_RefreshKeepsList(p, in, next_step) ==
    LET p1 == IF p.available_drives = None THEN p
              ELSE IF in.click = "select" /\ in.idx \in 1..Len(p.available_drives[1])
                      /\ ~SameDrive(p.selected_drive, Some(p.available_drives[1][in.idx]))
              THEN [p EXCEPT !.selected_drive = Some(p.available_drives[1][in.idx])]
              ELSE IF in.click = "refresh"
              THEN [p EXCEPT !.selected_drive = None]
              ELSE p
    IN IF in.click = "next" /\ p1.selected_drive # None
       THEN [p1 EXCEPT !.current_step = next_step]
       ELSE p1

\* Mutant: Refresh forgets to clear the selected drive.
RenderChooseDrive_RefreshKeepsSelection(p, in, next_step) ==
    LET p1 == IF p.available_drives = None THEN p
              ELSE IF in.click = "select" /\ in.idx \in 1..Len(p.available_drives[1])
                      /\ ~SameDrive(p.selected_drive, Some(p.available_drives[1][in.idx]))
              THEN [p EXCEPT !.selected_drive = Some(p.available_drives[1][in.idx])]
              ELSE IF in.click = "refresh"
              THEN [p EXCEPT !.available_drives = None]
              ELSE p
    IN IF in.click = "next" /\ p1.selected_drive # None
       THEN [p1 EXCEPT !.current_step = next_step]
       ELSE p1

\* The drive list, Refresh and the install button of the ChooseDrive steps.
\* selectable_value assigns only when the current value differs.
RenderChooseDrive(p, in, next_step) ==
    LET p1 == IF p.available_drives = None THEN p
              ELSE IF in.click = "select" /\ in.idx \in 1..Len(p.available_drives[1])
                      /\ ~SameDrive(p.selected_drive, Some(p.available_drives[1][in.idx]))
              THEN [p EXCEPT !.selected_drive = Some(p.available_drives[1][in.idx])]
              ELSE IF in.click = "refresh"
              THEN [p EXCEPT !.available_drives = None, !.selected_drive = None]
              ELSE p
    IN IF in.click = "next" /\ p1.selected_drive # None
       THEN [p1 EXCEPT !.current_step = next_step]
       ELSE p1

\* self.team_numbers[self.team_number_index] is in bounds.
TeamNumberInBounds(p) == p.team_number_index < Len(p.team_numbers)

\* Mutant: the drives are listed on the render thread, without a worker.
DsRunChooseDrive_ListsInline(p, in) ==
    LET p2 == IF SlotEmpty(p.available_drives, p.background_thread)
              THEN [p EXCEPT !.available_drives = Some(<<DriveA, DriveB>>)]
              ELSE p
    IN IF ~TeamNumberInBounds(p2) THEN Panic(p2)
       ELSE Ran(RenderChooseDrive(p2, in, "InstallSoftware"))

DsRunChooseDrive(p, in) ==
    LET p1 == IF SlotEmpty(p.available_drives, p.background_thread)
              THEN [p EXCEPT !.drive_list_receiver = Some(<<>>),
                             !.background_thread = Some(Worker("ds", "drives", "run"))]
              ELSE p
        r == TakeJoinRecv(p1, "drive_list_receiver")
    IN IF r.err # None THEN Failed(r.p, r.err[1])
       ELSE LET p2 == IF r.taken THEN [r.p EXCEPT !.available_drives = r.val] ELSE r.p
            IN IF ~TeamNumberInBounds(p2) THEN Panic(p2)
               ELSE Ran(RenderChooseDrive(p2, in, "InstallSoftware"))

\* Lines 288-322: everything up to and including the spawn.
DsSpawnInstall(p, in) ==
    IF p.install_finished_receiver # None THEN Ran(p)
    ELSE LET p1 == [p EXCEPT !.install_finished_receiver = Some(<<>>)]
         IN IF p1.archive_path = None
            THEN Failed(p1, "Expected archive_path to not be None.")
            ELSE IF p1.selected_drive = None
            THEN Failed(p1, "Expected selected_drive to not be None.")
            ELSE IF ~in.io_ok THEN Failed(p1, "No such file or directory")
            ELSE IF ~TeamNumberInBounds(p1) THEN Panic(p1)
            ELSE [p |-> [p1 EXCEPT !.background_thread =
                            Some([Worker("ds", "install", "format")
                                  EXCEPT !.path = p1.archive_path,
                                         !.drive = p1.selected_drive,
                                         !.team_number =
                                             p1.team_numbers[p1.team_number_index + 1]])],
                  err |-> None, panic |-> FALSE, detached |-> p1.background_thread]

\* Mutant: the finished install is consumed but the step is not left.
DsRunInstallSoftware_StaysOnStep(p, in) ==
    LET s == DsSpawnInstall(p, in)
    IN IF s.err # None \/ s.panic THEN s
       ELSE IF s.p.background_thread # None /\ is_finished(s.p.background_thread[1])
       THEN LET thread == s.p.background_thread[1]
                p1 == [s.p EXCEPT !.background_thread = None]
            IN IF ~join_thread(thread).ok
               THEN [s EXCEPT !.p = p1, !.err = Some("Background thread failed")]
               ELSE IF p1.install_finished_receiver = None
               THEN [s EXCEPT !.p = p1,
                              !.err = Some("Expected install_finished_receiver to not be None.")]
               ELSE [s EXCEPT !.p = [p1 EXCEPT !.install_finished_receiver = None]]
       ELSE s

DsRunInstallSoftware(p, in) ==
    LET s == DsSpawnInstall(p, in)
    IN IF s.err # None \/ s.panic THEN s
       ELSE IF s.p.background_thread # None /\ is_finished(s.p.background_thread[1])
       THEN LET thread == s.p.background_thread[1]
                p1 == [s.p EXCEPT !.background_thread = None]
            IN IF ~join_thread(thread).ok
               THEN [s EXCEPT !.p = p1, !.err = Some("Background thread failed")]
               ELSE IF p1.install_finished_receiver = None
               THEN [s EXCEPT !.p = p1,
                              !.err = Some("Expected install_finished_receiver to not be None.")]
               ELSE [s EXCEPT !.p = [p1 EXCEPT !.install_finished_receiver = None,
                                               !.current_step = "RemoveCard"]]
       ELSE s

\* Mutant: Next is offered at the last index as well.
DsRunRemoveCard_OffByOne(p, in) ==
    IF ~TeamNumberInBounds(p) THEN Panic(p)
    ELSE IF p.team_number_index < Len(p.team_numbers) /\ in.click = "next"
    THEN Ran([p EXCEPT !.team_number_index = @ + 1,
                       !.selected_drive = None,
                       !.available_drives = None,
                       !.current_step = "ChooseDrive"])
    ELSE Ran(p)

\* Mutant: Next skips a team number.
DsRunRemoveCard_SkipsCard(p, in) ==
    IF ~TeamNumberInBounds(p) THEN Panic(p)
    ELSE IF p.team_number_index < Len(p.team_numbers) - 1 /\ in.click = "next"
    THEN Ran([p EXCEPT !.team_number_index = @ + 2,
                       !.selected_drive = None,
                       !.available_drives = None,
                       !.current_step = "ChooseDrive"])
    ELSE Ran(p)

\* Mutant: Next is never offered.
DsRunRemoveCard_NeverOffersNext(p, in) ==
    IF ~TeamNumberInBounds(p) THEN Panic(p) ELSE Ran(p)

DsRunRemoveCard(p, in) ==
    IF ~TeamNumberInBounds(p) THEN Panic(p)
    ELSE IF p.team_number_index < Len(p.team_numbers) - 1 /\ in.click = "next"
    THEN Ran([p EXCEPT !.team_number_index = @ + 1,
                       !.selected_drive = None,
                       !.available_drives = None,
                       !.current_step = "ChooseDrive"])
    ELSE Ran(p)

DsRun(p, in) ==
    IF p.current_step = "ChooseVersion" THEN DsRunChooseVersion(p, in)
    ELSE IF p.current_step = "EnterTeamNumbers" THEN DsRunEnterTeamNumbers(p, in)
    ELSE IF p.current_step = "DownloadArchive" THEN DsRunDownloadArchive(p, in)
    ELSE IF p.current_step = "ChooseDrive" THEN DsRunChooseDrive(p, in)
    ELSE IF p.current_step = "InstallSoftware" THEN DsRunInstallSoftware(p, in)
    ELSE DsRunRemoveCard(p, in)

(* ---------------------------- system firmware page --------------------- *)

SystemFirmwarePage_new ==
    [kind |-> "fw",
     current_step |-> "ChooseVersion",
     available_releases |-> None,
     software_version |-> None,
     available_firmwares |-> None,
     selected_firmware |-> None,
     firmware_path |-> None,
     available_drives |-> None,
     selected_drive |-> None,
     available_relases_receiver |-> None,
     download_finished_receiver |-> None,
     drive_list_receiver |-> None,
     install_finished_receiver |-> None,
     background_thread |-> None]

\* The idiom of the system-firmware steps:
\*   if let Ok(v) = receiver.try_recv() {
\*       .. let thread = self.background_thread.take().unwrap();
\*       thread.join().map_err(..).unwrap(); ..
\* got: the message received.  join() waits until the thread has terminated.
TryRecvJoin(p, rx) ==
    IF p[rx] = None \/ p[rx][1] = <<>>
    THEN [p |-> p, got |-> None, panic |-> FALSE]
    ELSE LET p1 == [p EXCEPT ![rx] = Some(Tail(p[rx][1]))]
         IN IF p1.background_thread = None
            THEN [p |-> p1, got |-> Some(Head(p[rx][1])), panic |-> TRUE]
            ELSE [p |-> [p1 EXCEPT !.background_thread = None],
                  got |-> Some(Head(p[rx][1])),
                  panic |-> ~join_thread(p1.background_thread[1]).ok]

StartsWith(s, prefix) ==
    Len(s) >= Len(prefix) /\ SubSeq(s, 1, Len(prefix)) = prefix

EndsWith(s, suffix) ==
    Len(s) >= Len(suffix) /\ SubSeq(s, Len(s) - Len(suffix) + 1, Len(s)) = suffix

\* Mutant: the filter looks at the prefix only.
FirmwareAssets_IgnoresTag(version) ==
    SelectSeq(version.assets,
              LAMBDA asset : StartsWith(asset.name, <<"g", "s", "s", "-">>))

\* filter_map of lines 129-141
FirmwareAssets(version) ==
    LET prefix == <<"g", "s", "s", "-">>
        suffix == <<"-">> \o version.tag_name \o <<".", "u", "f", "2">>
    IN SelectSeq(version.assets,
                 LAMBDA asset : StartsWith(asset.name, prefix) /\ EndsWith(asset.name, suffix))

FwRunChooseVersion(p, in) ==
    LET p1 == IF SlotEmpty(p.available_releases, p.background_thread)
              THEN [p EXCEPT !.available_relases_receiver = Some(<<>>),
                             !.background_thread = Some(Worker("fw", "releases", "run"))]
              ELSE p
        r == TryRecvJoin(p1, "available_relases_receiver")
        p2 == IF r.got # None THEN [r.p EXCEPT !.available_releases = r.got] ELSE r.p
        p3 == IF p2.background_thread = None /\ p2.available_releases # None
              THEN [p2 EXCEPT !.available_relases_receiver = None]
              ELSE p2
        s == SelectLatest(p3)
    IN IF r.panic THEN Panic(p2)
       ELSE IF s.err # None THEN Panic(p3)
       ELSE Ran(RenderChooseVersion(s.p, in, s.p.software_version # None,
                                    "ChooseBoardRevision"))

\* Mutant: Next is enabled without a selected board revision.
FwRunChooseBoardRevision_NextAlwaysEnabled(p, in) ==
    LET p1 == IF p.available_drives = None /\ p.software_version # None
              THEN [p EXCEPT !.available_firmwares =
                                 Some(FirmwareAssets(p.software_version[1]))]
              ELSE p
    IN IF p1.available_firmwares # None /\ p1.software_version = None THEN Panic(p1)
       ELSE LET p2 == IF in.click = "select" /\ p1.available_firmwares # None
                         /\ in.idx \in 1..Len(p1.available_firmwares[1])
                      THEN [p1 EXCEPT !.selected_firmware =
                                          Some(p1.available_firmwares[1][in.idx])]
                      ELSE p1
            IN IF in.click = "next"
               THEN Ran([p2 EXCEPT !.current_step = "DownloadFirmware"])
               ELSE Ran(p2)

FwRunChooseBoardRevision(p, in) ==
    LET p1 == IF p.available_drives = None /\ p.software_version # None
              THEN [p EXCEPT !.available_firmwares =
                                 Some(FirmwareAssets(p.software_version[1]))]
              ELSE p
    IN IF p1.available_firmwares # None /\ p1.software_version = None THEN Panic(p1)
       ELSE LET p2 == IF in.click = "select" /\ p1.available_firmwares # None
                         /\ in.idx \in 1..Len(p1.available_firmwares[1])
                      THEN [p1 EXCEPT !.selected_firmware =
                                          Some(p1.available_firmwares[1][in.idx])]
                      ELSE p1
            IN IF in.click = "next" /\ p2.selected_firmware # None
               THEN Ran([p2 EXCEPT !.current_step = "DownloadFirmware"])
               ELSE Ran(p2)

FwRunDownloadFirmware(p, in) ==
    LET spawn == SlotEmpty(p.firmware_path, p.background_thread)
    IN IF spawn /\ (p.software_version = None \/ p.selected_firmware = None) THEN Panic(p)
       ELSE LET p1 == IF spawn
                      THEN [p EXCEPT !.download_finished_receiver = Some(<<>>),
                                     !.background_thread =
                                         Some([Worker("fw", "download", "run")
                                               EXCEPT !.release = p.software_version,
                                                      !.asset = p.selected_firmware])]
                      ELSE p
                r == TryRecvJoin(p1, "download_finished_receiver")
                p2 == IF r.got # None
                      THEN [r.p EXCEPT !.firmware_path = r.got,
                                       !.download_finished_receiver = None]
                      ELSE r.p
            IN IF r.panic THEN Panic(r.p)
               ELSE IF p2.firmware_path # None
               THEN Ran([p2 EXCEPT !.current_step = "ChooseDrive"])
               ELSE Ran(p2)

FwRunChooseDrive(p, in) ==
    LET p1 == IF SlotEmpty(p.available_drives, p.background_thread)
              THEN [p EXCEPT !.drive_list_receiver = Some(<<>>),
                             !.background_thread = Some(Worker("fw", "drives", "run"))]
              ELSE p
        r == TryRecvJoin(p1, "drive_list_receiver")
        p2 == IF r.got # None
              THEN [r.p EXCEPT !.available_drives = r.got, !.drive_list_receiver = None]
              ELSE r.p
    IN IF r.panic THEN Panic(r.p)
       ELSE Ran(RenderChooseDrive(p2, in, "InstallFirmware"))

\* Lines 290-301: everything up to and including the spawn.
FwSpawnInstall(p) ==
    IF p.install_finished_receiver # None THEN Ran(p)
    ELSE LET p1 == [p EXCEPT !.install_finished_receiver = Some(<<>>)]
         IN IF p1.firmware_path = None \/ p1.selected_drive = None THEN Panic(p1)
            ELSE [p |-> [p1 EXCEPT !.background_thread =
                            Some([Worker("fw", "install", "copy")
                                  EXCEPT !.path = p1.firmware_path,
                                         !.drive = p1.selected_drive])],
                  err |-> None, panic |-> FALSE, detached |-> p1.background_thread]

\* Mutant: the install receiver is kept after its message was received.
FwRunInstallFirmware_KeepsReceiver(p, in) ==
    LET s == FwSpawnInstall(p)
        r == TryRecvJoin(s.p, "install_finished_receiver")
    IN IF s.panic THEN s
       ELSE IF r.panic THEN [s EXCEPT !.p = r.p, !.panic = TRUE]
       ELSE IF r.got # None
       THEN [s EXCEPT !.p = [r.p EXCEPT !.current_step = "PostInstall"]]
       ELSE s

FwRunInstallFirmware(p, in) ==
    LET s == FwSpawnInstall(p)
        r == TryRecvJoin(s.p, "install_finished_receiver")
    IN IF s.panic THEN s
       ELSE IF r.panic THEN [s EXCEPT !.p = r.p, !.panic = TRUE]
       ELSE IF r.got # None
       THEN [s EXCEPT !.p = [r.p EXCEPT !.install_finished_receiver = None,
                                        !.current_step = "PostInstall"]]
       ELSE s

\* Mutant: "Setup Another Device" goes back to the version choice.
RunPostInstall_BackToVersion(p, in) ==
    IF in.click = "next"
    THEN Ran([p EXCEPT !.selected_drive = None,
                       !.available_drives = None,
                       !.current_step = "ChooseVersion"])
    ELSE Ran(p)

\* Mutant: "Setup Another Device" also forgets the downloaded firmware.
RunPostInstall_ForgetsArtifact(p, in) ==
    IF in.click = "next"
    THEN Ran([p EXCEPT !.selected_drive = None,
                       !.available_drives = None,
                       !.firmware_path = None,
                       !.current_step = "ChooseDrive"])
    ELSE Ran(p)

\* "Setup Another Device" of both PostInstall steps.
RunPostInstall(p, in) ==
    IF in.click = "next"
    THEN Ran([p EXCEPT !.selected_drive = None,
                       !.available_drives = None,
                       !.current_step = "ChooseDrive"])
    ELSE Ran(p)

FwRun(p, in) ==
    IF p.current_step = "ChooseVersion" THEN FwRunChooseVersion(p, in)
    ELSE IF p.current_step = "ChooseBoardRevision" THEN FwRunChooseBoardRevision(p, in)
    ELSE IF p.current_step = "DownloadFirmware" THEN FwRunDownloadFirmware(p, in)
    ELSE IF p.current_step = "ChooseDrive" THEN FwRunChooseDrive(p, in)
    ELSE IF p.current_step = "InstallFirmware" THEN FwRunInstallFirmware(p, in)
    ELSE RunPostInstall(p, in)

(* ---------------------------- starter code page ------------------------ *)

StudentStarterCodePage_new ==
    [kind |-> "sc",
     current_step |-> "ChooseVersion",
     available_releases |-> None,
     software_version |-> None,
     firmware_path |-> None,
     available_drives |-> None,
     selected_drive |-> None,
     available_releases_receiver |-> None,
     download_finished_receiver |-> None,
     drive_list_receiver |-> None,
     install_finished_receiver |-> None,
     background_thread |-> None]

ScRunChooseVersion(p, in) ==
    LET p1 == IF SlotEmpty(p.available_releases, p.background_thread)
              THEN [p EXCEPT !.available_releases_receiver = Some(<<>>),
                             !.background_thread = Some(Worker("sc", "releases", "run"))]
              ELSE p
        r == TakeJoinRecv(p1, "available_releases_receiver")
    IN IF r.err # None THEN Failed(r.p, r.err[1])
       ELSE LET p2 == IF r.taken THEN [r.p EXCEPT !.available_releases = r.val] ELSE r.p
                s == SelectLatest(p2)
            IN IF s.err # None THEN s
               ELSE Ran(RenderChooseVersion(s.p, in, s.p.software_version # None,
                                            "DownloadFirmware"))

ScRunDownloadFirmware(p, in) ==
    LET spawn == SlotEmpty(p.firmware_path, p.background_thread)
        asset_name == <<"best-default-program-">> \o p.software_version[1].tag_name
                          \o <<".uf2">>
        firmware_asset == FindAsset(p.software_version[1].assets, asset_name)
    IN IF spawn /\ p.software_version = None
       THEN Failed(p, "Expected software_version to not be None")
       ELSE IF spawn /\ firmware_asset = None
       THEN Failed(p, "Could not find asset in release assets.")
       ELSE LET p1 == IF spawn
                      THEN [p EXCEPT !.download_finished_receiver = Some(<<>>),
                                     !.background_thread =
                                         Some([Worker("sc", "download", "run")
                                               EXCEPT !.release = p.software_version,
                                                      !.asset = firmware_asset])]
                      ELSE p
                r == TakeJoinRecv(p1, "download_finished_receiver")
            IN IF r.err # None THEN Failed(r.p, r.err[1])
               ELSE LET p2 == IF r.taken THEN [r.p EXCEPT !.firmware_path = r.val] ELSE r.p
                    IN IF p2.firmware_path # None
                       THEN Ran([p2 EXCEPT !.current_step = "ChooseDrive"])
                       ELSE Ran(p2)

ScRunChooseDrive(p, in) ==
    LET p1 == IF SlotEmpty(p.available_drives, p.background_thread)
              THEN [p EXCEPT !.drive_list_receiver = Some(<<>>),
                             !.background_thread = Some(Worker("sc", "drives", "run"))]
              ELSE p
        r == TakeJoinRecv(p1, "drive_list_receiver")
    IN IF r.err # None THEN Failed(r.p, r.err[1])
       ELSE LET p2 == IF r.taken THEN [r.p EXCEPT !.available_drives = r.val] ELSE r.p
            IN Ran(RenderChooseDrive(p2, in, "InstallFirmware"))

\* Lines 214-225: everything up to and including the spawn.
ScSpawnInstall(p) ==
    IF p.install_finished_receiver # None THEN Ran(p)
    ELSE LET p1 == [p EXCEPT !.install_finished_receiver = Some(<<>>)]
         IN IF p1.firmware_path = None
            THEN Failed(p1, "Expected firmware_path to not be None.")
            ELSE IF p1.selected_drive = None
            THEN Failed(p1, "Expected selected_drive to not be None.")
            ELSE [p |-> [p1 EXCEPT !.background_thread =
                            Some([Worker("sc", "install", "copy")
                                  EXCEPT !.path = p1.firmware_path,
                                         !.drive = p1.selected_drive])],
                  err |-> None, panic |-> FALSE, detached |-> p1.background_thread]

ScRunInstallFirmware(p, in) ==
    LET s == ScSpawnInstall(p)
    IN IF s.err # None THEN s
       ELSE IF s.p.background_thread # None /\ is_finished(s.p.background_thread[1])
       THEN LET thread == s.p.background_thread[1]
                p1 == [s.p EXCEPT !.background_thread = None]
            IN IF ~join_thread(thread).ok
               THEN [s EXCEPT !.p = p1, !.err = Some("Background thread failed")]
               ELSE [s EXCEPT !.p = [p1 EXCEPT !.install_finished_receiver = None,
                                               !.current_step = "PostInstall"]]
       ELSE s

ScRun(p, in) ==
    IF p.current_step = "ChooseVersion" THEN ScRunChooseVersion(p, in)
    ELSE IF p.current_step = "DownloadFirmware" THEN ScRunDownloadFirmware(p, in)
    ELSE IF p.current_step = "ChooseDrive" THEN ScRunChooseDrive(p, in)
    ELSE IF p.current_step = "InstallFirmware" THEN ScRunInstallFirmware(p, in)
    ELSE RunPostInstall(p, in)

(* ---------------------------- application ------------------------------ *)

NoPage == [kind |-> "none"]

\* Page::run dispatched on the concrete page type.
Run(p, in) ==
    IF p.kind = "ds" THEN DsRun(p, in)
    ELSE IF p.kind = "fw" THEN FwRun(p, in)
    ELSE ScRun(p, in)

\* A detached thread as the model tracks it: which closure it runs, where
\* it is and which device operations it has invoked.  The device and file
\* it was given are not tracked any further.
Orphaned(w) == [w EXCEPT !.path = None, !.drive = None, !.team_number = <<>>]

\* Mutant: dropping the JoinHandle ends the thread.
Detached_KillsThread(thread) == EmptyBag

\* Dropping a page drops its JoinHandle and receivers: a thread that still
\* has statements to execute is detached and keeps running.
Detached(thread) ==
    IF thread # None /\ thread[1].pc \notin {"sent", "done", "panicked"}
    THEN SetToBag({Orphaned(thread[1])})
    ELSE EmptyBag

DropPage(p) == IF p = NoPage THEN EmptyBag ELSE Detached(p.background_thread)

\* Start Over button of add_top_panel.
AddTopPanel(page, in) == IF in.click = "start_over" THEN NoPage ELSE page

\* The three launcher buttons of run_start_page.
RunStartPage(in) ==
    IF in.click = "open_ds" THEN DriverStationSetupPage_new
    ELSE IF in.click = "open_fw" THEN SystemFirmwarePage_new
    ELSE IF in.click = "open_sc" THEN StudentStarterCodePage_new
    ELSE NoPage

\* Mutant: the page is run although an error is outstanding.
ShowsErrorModal_Never(error) == FALSE

\* The central panel shows the modal instead of running the page.
ShowsErrorModal(error) == error # None

\* Mutant: Ok clears the error but keeps the page.
ShowErrorModal_KeepsPage(page, in) ==
    IF in.click = "ok" THEN [page |-> page, error |-> None]
    ELSE [page |-> page, error |-> page_error]

\* Ok button of show_error_modal.
ShowErrorModal(page, in) ==
    IF in.click = "ok" THEN [page |-> NoPage, error |-> None]
    ELSE [page |-> page, error |-> page_error]

\* MyApp::update: one frame.
Update(in) ==
    /\ ~crashed
    /\ UNCHANGED <<gh_response, gh_result, cache_files, dl_log, installed>>
    /\ IF current_page # NoPage
       THEN LET page == AddTopPanel(current_page, in)
            IN IF ShowsErrorModal(page_error)
               THEN LET m == ShowErrorModal(page, in)
                    IN /\ current_page' = m.page
                       /\ page_error' = m.error
                       /\ crashed' = crashed
                       /\ orphans' = orphans (+)
                              (IF m.page = NoPage THEN DropPage(current_page) ELSE EmptyBag)
               ELSE IF page # NoPage
               THEN LET r == Run(page, in)
                    IN /\ current_page' = r.p
                       /\ page_error' = r.err
                       /\ crashed' = r.panic
                       /\ orphans' = orphans (+) Detached(r.detached)
               ELSE /\ current_page' = NoPage
                    /\ orphans' = orphans (+) DropPage(current_page)
                    /\ UNCHANGED <<page_error, crashed>>
       ELSE /\ current_page' = RunStartPage(in)
            /\ UNCHANGED <<page_error, crashed, orphans>>
    /\ BagCardinality(orphans') <= MaxOrphans

Frame == Update(NoInput)

ClickStartOver == Update(Click("start_over"))

ClickOk == Update(Click("ok"))

OpenDriverStation == Update(Click("open_ds"))

OpenSystemFirmware == Update(Click("open_fw"))

\* The launcher draws this button inside ui.disable() ("Coming Soon"); the
\* page itself is complete, and the model lets the launcher open it so that
\* its steps are exercised through the same frame loop as the other two.
OpenStarterCode == Update(Click("open_sc"))

ClickNext == Update(Click("next"))

ClickRefresh == Update(Click("refresh"))

ClickSelect == \E idx \in 1..MaxListLen : Update(Input("select", idx, None, TRUE))

\* A frame in which the team-number text box changes (possibly together
\* with a click on Next).
EditText ==
    /\ current_page.kind = "ds"
    /\ current_page.current_step = "EnterTeamNumbers"
    /\ \E t \in Keystrokes(current_page.team_numbers_text), c \in {"none", "next"} :
           Update(Input(c, 0, Some(t), TRUE))

\* A frame in which File::open of the downloaded archive fails.
OpenArchiveFails ==
    /\ current_page.kind = "ds"
    /\ current_page.current_step = "InstallSoftware"
    /\ Update(Input("none", 0, None, FALSE))

\* The thread owned by the current page takes one step.
WorkerStep ==
    /\ ~crashed
    /\ current_page # NoPage
    /\ current_page.background_thread # None
    /\ ~is_finished(current_page.background_thread[1])
    /\ LET w == current_page.background_thread[1]
           rx == ReceiverOf(w.page, w.kind)
       IN \E o \in WorkerOutcomes(w, current_page[rx] # None) :
              current_page' =
                  [current_page EXCEPT
                      !.background_thread = Some(o.w),
                      ![rx] = IF o.msg # None THEN Some(Append(@[1], o.msg[1])) ELSE @]
    /\ UNCHANGED <<page_error, crashed, orphans, gh_response, gh_result,
                   cache_files, dl_log, installed>>

\* Detached thread w takes one step; its receiver no longer exists.
OrphanStepOn(w) ==
    /\ ~crashed
    /\ BagIn(w, orphans)
    /\ \E o \in WorkerOutcomes(w, FALSE) :
           orphans' = (orphans (-) SetToBag({w})) (+)
                          (IF is_finished(o.w) THEN EmptyBag ELSE SetToBag({o.w}))
    /\ UNCHANGED <<current_page, page_error, crashed, gh_response, gh_result,
                   cache_files, dl_log, installed>>

\* A detached thread takes one step.
OrphanStep ==
    /\ \E w \in BagToSet(orphans) : OrphanStepOn(w)
    /\ UNCHANGED <<current_page, page_error, crashed, gh_response, gh_result,
                   cache_files, dl_log, installed>>

Init ==
    /\ current_page = NoPage
    /\ page_error = None
    /\ crashed = FALSE
    /\ orphans = EmptyBag
    /\ gh_response = HttpFailure
    /\ gh_result = None
    /\ cache_files = {}
    /\ dl_log = <<>>
    /\ installed = <<>>

Next ==
    \/ Frame
    \/ ClickStartOver
    \/ ClickOk
    \/ OpenDriverStation
    \/ OpenSystemFirmware
    \/ OpenStarterCode
    \/ ClickNext
    \/ ClickRefresh
    \/ ClickSelect
    \/ EditText
    \/ OpenArchiveFails
    \/ WorkerStep
    \/ OrphanStep

Spec == Init /\ [][Next]_vars

\* The render loop keeps drawing frames: every loading screen shows a
\* spinner, which requests a repaint.
FairSpec == Spec /\ WF_vars(Frame)

\* The install closures at each statement they can be detached at.
InstallStages ==
    {Orphaned(Worker("fw", "install", "copy")), Orphaned(Worker("sc", "install", "copy")),
     Orphaned(Worker("ds", "install", "format")),
     Orphaned(FormatStep(Worker("ds", "install", "format"), TRUE).w),
     Orphaned(WriteStep(FormatStep(Worker("ds", "install", "format"), TRUE).w, TRUE).w)}

\* The operating system keeps scheduling every thread: the one the page
\* owns and each detached one.
WorkerFairSpec ==
    Spec /\ WF_vars(WorkerStep) /\ WF_vars(OrphanStep)
         /\ \A w \in InstallStages : WF_vars(OrphanStepOn(w))

(* ---------------------------- get_releases on its own ------------------ *)

ReleaseUniverse ==
    {GithubRelease(n, <<"1">>, <<>>, p, d) : n \in {<<"a">>, <<"b">>}, p \in BOOLEAN, d \in BOOLEAN}

RECURSIVE ReleaseLists(_)
ReleaseLists(n) ==
    IF n = 0 THEN {<<>>}
    ELSE LET shorter == ReleaseLists(n - 1)
         IN shorter \cup {Append(l, r) : l \in {x \in shorter : Len(x) = n - 1},
                                         r \in ReleaseUniverse}

InitReleases ==
    /\ current_page = NoPage
    /\ page_error = None
    /\ crashed = FALSE
    /\ orphans = EmptyBag
    /\ gh_response \in {HttpFailure} \cup {[ok |-> TRUE, body |-> l] : l \in ReleaseLists(MaxListLen)}
    /\ gh_result = None
    /\ cache_files = {}
    /\ dl_log = <<>>
    /\ installed = <<>>

FetchReleases ==
    /\ gh_result = None
    /\ gh_result' = Some(get_releases(gh_response))
    /\ UNCHANGED <<current_page, page_error, crashed, orphans, gh_response,
                   cache_files, dl_log, installed>>

NextReleases == FetchReleases

SpecReleases == InitReleases /\ [][NextReleases]_vars

(* ---------------------------- download_versioned_asset on its own ------ *)

MaxDownloads == 3

DownloadAssets == {DsAsset, ScAsset}

DownloadReleases ==
    {GithubRelease(<<"v2">>, <<"2">>, <<DsAsset, ScAsset>>, FALSE, FALSE),
     GithubRelease(<<"v1">>, <<"1">>, <<DsAsset, ScAsset>>, FALSE, FALSE)}

InitDownload ==
    /\ current_page = NoPage
    /\ page_error = None
    /\ crashed = FALSE
    /\ orphans = EmptyBag
    /\ gh_response = HttpFailure
    /\ gh_result = None
    /\ cache_files = {}
    /\ dl_log = <<>>
    /\ installed = <<>>

\* One call of download_versioned_asset(asset, "gizmo-platform", "gizmo",
\* release, cache_dir).  dl_log records, per call, what was asked for,
\* whether the file was on disk before, the result and the requests issued.
DownloadAsset ==
    /\ Len(dl_log) < MaxDownloads
    /\ \E asset \in DownloadAssets, release \in DownloadReleases, net_ok \in BOOLEAN :
           LET dest_path == DestPath(asset, <<"gizmo-platform">>, <<"gizmo">>, release, CacheDir)
               d == download_file(asset.browser_download_url, dest_path, net_ok, cache_files)
           IN /\ cache_files' = d.files
              /\ dl_log' = Append(dl_log,
                     [asset |-> asset, release |-> release,
                      existed |-> dest_path \in cache_files,
                      requests |-> d.requests,
                      result |-> download_versioned_asset(asset, <<"gizmo-platform">>,
                                     <<"gizmo">>, release, CacheDir, net_ok)])
    /\ UNCHANGED <<current_page, page_error, crashed, orphans, gh_response, gh_result,
                   installed>>

NextDownload == DownloadAsset

SpecDownload == InitDownload /\ [][NextDownload]_vars

(* ---------------------------- a driver-station session that goes well -- *)

(* The driver-station wizard with a cooperating operator and environment:  *)
(* the operator opens the wizard, types team numbers, clicks every enabled *)
(* Next / Install button, selects a listed drive and clicks Refresh only   *)
(* while no drive is listed; every operation of a worker succeeds.         *)
(* installed records, in order, the team numbers whose install closure ran *)
(* through format, extract and flush to its send.                          *)

OperatorOpens ==
    /\ current_page = NoPage
    /\ Update(Click("open_ds"))

\* A digit or a newline is typed at the end of the text box.
OperatorTypes ==
    /\ current_page # NoPage
    /\ current_page.kind = "ds"
    /\ current_page.current_step = "EnterTeamNumbers"
    /\ Len(current_page.team_numbers_text) < MaxTextLen
    /\ \E c \in {"1", "\n"} :
           Update(Input("none", 0, Some(Append(current_page.team_numbers_text, c)), TRUE))

OperatorClicksNext ==
    /\ current_page # NoPage
    /\ Update(Click("next"))

OperatorSelectsDrive ==
    /\ current_page # NoPage
    /\ current_page.current_step = "ChooseDrive"
    /\ \E idx \in 1..MaxListLen : Update(Input("select", idx, None, TRUE))

OperatorRefreshes ==
    /\ current_page # NoPage
    /\ current_page.current_step = "ChooseDrive"
    /\ current_page.available_drives = Some(<<>>)
    /\ Update(Click("refresh"))

\* The thread owned by the page takes one step, and the operation it
\* invokes succeeds.
WorkerSucceeds ==
    /\ ~crashed
    /\ current_page # NoPage
    /\ current_page.background_thread # None
    /\ ~is_finished(current_page.background_thread[1])
    /\ LET w == current_page.background_thread[1]
           rx == ReceiverOf(w.page, w.kind)
       IN \E o \in WorkerOutcomes(w, current_page[rx] # None) :
              /\ o.w.pc # "panicked"
              /\ current_page' =
                     [current_page EXCEPT
                         !.background_thread = Some(o.w),
                         ![rx] = IF o.msg # None THEN Some(Append(@[1], o.msg[1])) ELSE @]
              /\ installed' = IF w.kind = "install" /\ o.msg # None
                              THEN Append(installed, w.team_number)
                              ELSE installed
    /\ UNCHANGED <<page_error, crashed, orphans, gh_response, gh_result,
                   cache_files, dl_log>>

\* The enumeration worker finds at least one removable drive.
WorkerFindsDrive ==
    /\ WorkerSucceeds
    /\ current_page.background_thread[1].kind = "drives"
    /\ current_page'.drive_list_receiver # Some(<<<<>>>>)

NextCooperative ==
    \/ OperatorOpens
    \/ OperatorTypes
    \/ OperatorClicksNext
    \/ OperatorSelectsDrive
    \/ OperatorRefreshes
    \/ Frame
    \/ WorkerSucceeds

\* Frames keep being rendered, every worker keeps running, the operator
\* keeps clicking what is enabled, and an enumeration that is repeated
\* again and again eventually lists a drive.
CooperativeSpec ==
    /\ Init
    /\ [][NextCooperative]_vars
    /\ WF_vars(Frame)
    /\ WF_vars(WorkerSucceeds)
    /\ SF_vars(WorkerFindsDrive)
    /\ WF_vars(OperatorClicksNext)
    /\ WF_vars(OperatorSelectsDrive)
    /\ WF_vars(OperatorRefreshes)

(* ---------------------------- properties ------------------------------- *)

HasPage == current_page # NoPage

NewPage(kind) ==
    IF kind = "ds" THEN DriverStationSetupPage_new
    ELSE IF kind = "fw" THEN SystemFirmwarePage_new
    ELSE IF kind = "sc" THEN StudentStarterCodePage_new
    ELSE NoPage

\* The value a worker of the given kind produces is already held by the page
\* (for an install: an install is already outstanding).
ValueKnown(p, kind) ==
    IF kind = "releases" THEN p.available_releases # None
    ELSE IF kind = "download"
    THEN (IF p.kind = "ds" THEN p.archive_path # None ELSE p.firmware_path # None)
    ELSE IF kind = "drives" THEN p.available_drives # None
    ELSE p.install_finished_receiver # None

\* This step stores a freshly spawned thread in the page.
Spawns ==
    /\ HasPage
    /\ current_page' # NoPage
    /\ current_page'.background_thread # None
    /\ current_page'.background_thread[1].pc \in {"run", "format", "copy"}
    /\ current_page'.background_thread # current_page.background_thread

\* C1: in every wizard a worker is spawned only when the page holds no
\* unjoined handle and the value the worker would produce is not yet stored.
C1_SpawnOnlyIntoEmptySlot ==
    [][Spawns =>
          /\ current_page.background_thread = None
          /\ ~ValueKnown(current_page, current_page'.background_thread[1].kind)]_vars

\* The second install of a driver-station wizard has been spawned.
C1_Witness ==
    /\ HasPage
    /\ current_page.kind = "ds"
    /\ current_page.current_step = "InstallSoftware"
    /\ current_page.team_number_index = 1
    /\ current_page.background_thread # None

DsScWorkerFailed ==
    /\ HasPage
    /\ current_page.kind \in {"ds", "sc"}
    /\ page_error = None
    /\ current_page.background_thread # None
    /\ current_page.background_thread[1].pc = "panicked"

\* C2: in the driver-station and starter-code wizards the first tick after a
\* worker has terminated abnormally returns an error, which becomes the
\* outstanding page error; nothing is stored, the step does not advance, and
\* the step does not stay in its loading state forever.
C2_WorkerFailureReported ==
    /\ [][(DsScWorkerFailed /\ current_page' # NoPage /\ current_page' # current_page) =>
             /\ page_error' # None
             /\ current_page' = [current_page EXCEPT !.background_thread = None]]_vars
    /\ (DsScWorkerFailed ~> (page_error # None \/ ~HasPage))

C2_Witness ==
    /\ HasPage
    /\ current_page.kind = "ds"
    /\ current_page.current_step = "InstallSoftware"
    /\ page_error = Some("Background thread failed")

FwWorkerFailed ==
    /\ HasPage
    /\ current_page.kind = "fw"
    /\ current_page.background_thread # None
    /\ current_page.background_thread[1].pc = "panicked"

\* C3: in the system-firmware wizard a worker that terminates abnormally is
\* eventually reported as an error (or the wizard is left); the step does not
\* show its spinner forever.
C3_FwFailureReported == FwWorkerFailed ~> (page_error # None \/ ~HasPage)

\* This step consumes the page's JoinHandle by joining it.
Joins ==
    /\ HasPage
    /\ current_page' # NoPage
    /\ current_page.background_thread # None
    /\ current_page'.background_thread = None

\* C4: in all three wizards a worker is joined only when it has already
\* terminated.
C4_JoinOnlyTerminated ==
    [][Joins => is_finished(current_page.background_thread[1])]_vars

\* What an outstanding error freezes: the step, every session field, and
\* which handle and receivers the page holds.
Frozen(p) ==
    [p EXCEPT !.background_thread = IF @ = None THEN None ELSE Some(@[1].kind),
              ![ReceiverOf(p.kind, "releases")] = (@ # None),
              !.download_finished_receiver = (@ # None),
              !.drive_list_receiver = (@ # None),
              !.install_finished_receiver = (@ # None)]

\* C5: while an error is outstanding the page is never run: step, session
\* fields and task slot stay as they are and no worker is spawned, until the
\* error is acknowledged or the wizard is discarded.
C5_ErrorFreezesPage ==
    [][(page_error # None /\ HasPage /\ current_page' # NoPage) =>
          /\ page_error' = page_error
          /\ Frozen(current_page') = Frozen(current_page)]_vars

C5_Witness ==
    /\ page_error # None
    /\ HasPage
    /\ current_page.kind = "ds"
    /\ current_page.current_step = "ChooseDrive"

\* This step acknowledges the error modal.
Acknowledges == page_error # None /\ page_error' = None

\* C6 as stated: acknowledging the error returns the operator to the first
\* step of the same flow with empty session state.
C6_AckRestartsSameFlow ==
    [][Acknowledges => current_page' = NewPage(current_page.kind)]_vars

\* C6 as amended: acknowledging the error clears it and discards the wizard
\* (back to the launcher, no session state left); a flow opened from the
\* launcher starts at its first step with empty session state.
C6_AckDiscardsWizard ==
    [][/\ Acknowledges => (page_error' = None /\ current_page' = NoPage)
       /\ (~HasPage /\ current_page' # NoPage) =>
              current_page' = NewPage(current_page'.kind)]_vars

C6_Witness ==
    /\ page_error # None
    /\ HasPage
    /\ current_page.kind = "sc"
    /\ current_page.current_step = "DownloadFirmware"

\* C7: Start Over leaves the application as just constructed, with no
\* outstanding error: whenever no wizard is open, no error is outstanding.
C7_StartOverClearsError == ~HasPage => page_error = None

InstallOrder == <<"format", "write", "flush">>

\* The device operations of one driver-station install thread so far.
InOrder(w) ==
    LET n == Len(w.log)
    IN /\ n <= 3
       /\ \A i \in 1..n : w.log[i].op = InstallOrder[i] /\ (i < n => w.log[i].ok)
       /\ (n > 0 /\ ~w.log[n].ok) => w.pc = "panicked"
       /\ w.pc = "format" => n = 0
       /\ w.pc = "write" => n = 1
       /\ w.pc = "flush" => n = 2
       /\ w.pc \in {"sent", "done"} => (n = 3 /\ w.log[3].ok)

DsInstallThreads ==
    {w \in BagToSet(orphans) : w.page = "ds" /\ w.kind = "install"}
        \cup (IF HasPage /\ current_page.kind = "ds" /\ current_page.background_thread # None
                 /\ current_page.background_thread[1].kind = "install"
              THEN {current_page.background_thread[1]} ELSE {})

\* C8: a driver-station install thread runs format, write and flush in that
\* order, each only after the previous one succeeded; it sends its message
\* only after flush succeeded, and after a failure it invokes nothing more
\* and ends in failure.
C8_InstallInOrder ==
    /\ \A w \in DsInstallThreads : InOrder(w)
    /\ (HasPage /\ current_page.kind = "ds"
            /\ current_page.install_finished_receiver # None
            /\ current_page.install_finished_receiver[1] # <<>>)
       => (/\ current_page.background_thread # None
           /\ current_page.background_thread[1].log
                  = <<[op |-> "format", ok |-> TRUE], [op |-> "write", ok |-> TRUE],
                      [op |-> "flush", ok |-> TRUE]>>)

\* An install thread whose write failed after a successful format.
C8_Witness ==
    \E w \in DsInstallThreads :
        /\ w.pc = "panicked"
        /\ w.log = <<[op |-> "format", ok |-> TRUE], [op |-> "write", ok |-> FALSE]>>

AtRemoveCard ==
    /\ HasPage
    /\ current_page.kind = "ds"
    /\ current_page.current_step = "RemoveCard"

NotLastTeam == current_page.team_number_index # Len(current_page.team_numbers) - 1

\* C9: in RemoveCard, Next is offered exactly when the index is not the last
\* one; it advances the index by one, clears the selected and the listed
\* drives and makes ChooseDrive current.  At the last index the page changes
\* only by being discarded.
C9_NextTarget ==
    /\ [][(AtRemoveCard /\ current_page' # NoPage /\ current_page' # current_page) =>
             /\ NotLastTeam
             /\ current_page' = [current_page EXCEPT
                                    !.team_number_index = @ + 1,
                                    !.selected_drive = None,
                                    !.available_drives = None,
                                    !.current_step = "ChooseDrive"]]_vars
    /\ [](AtRemoveCard /\ page_error = None /\ NotLastTeam =>
             DsRun(current_page, Click("next")).p.current_step = "ChooseDrive")

\* Back at ChooseDrive for the second team number.
C9_Witness ==
    /\ HasPage
    /\ current_page.kind = "ds"
    /\ current_page.current_step = "ChooseDrive"
    /\ current_page.team_number_index = 1
    /\ current_page.selected_drive = None
    /\ current_page.available_drives = None

Stable(r) == ~r.draft /\ ~r.prerelease

\* C10: get_releases marks exactly the first entry that is neither draft nor
\* prerelease as latest and changes nothing else; with no such entry it
\* returns an error.
C10_ExactlyFirstStableIsLatest ==
    (gh_result # None /\ gh_response.ok) =>
        LET body == gh_response.body
            r == gh_result[1]
        IN IF \E i \in 1..Len(body) : Stable(body[i])
           THEN /\ r.ok
                /\ Len(r.val[1]) = Len(body)
                /\ \A i \in 1..Len(body) :
                       /\ r.val[1][i].latest
                              = (Stable(body[i]) /\ \A j \in 1..(i - 1) : ~Stable(body[j]))
                       /\ [r.val[1][i] EXCEPT !.latest = FALSE] = body[i]
           ELSE ~r.ok

\* A list whose first entry is a draft and whose second entry became latest.
C10_Witness ==
    /\ gh_result # None
    /\ gh_result[1].ok
    /\ Len(gh_result[1].val[1]) >= 2
    /\ gh_response.body[1].draft
    /\ gh_result[1].val[1][2].latest

\* C11: downloading the same (owner, repo, release, asset) again into the
\* same cache root yields the same local path, and a call that finds the
\* file already at that path issues no request.
C11_DownloadIdempotent ==
    \A j \in 1..Len(dl_log) :
        /\ dl_log[j].existed =>
               (dl_log[j].requests = <<>> /\ dl_log[j].result.ok)
        /\ \A i \in 1..(j - 1) :
               (/\ dl_log[i].asset = dl_log[j].asset
                /\ dl_log[i].release = dl_log[j].release
                /\ dl_log[i].result.ok
                /\ dl_log[j].result.ok)
                   => dl_log[i].result.val = dl_log[j].result.val

\* This step keeps the wizard instance (the page is neither opened nor dropped).
KeepsPage == HasPage /\ current_page' # NoPage

\* This step changes the current step of the instance it keeps.
StepChanges == KeepsPage /\ current_page'.current_step # current_page.current_step

\* C12: a wizard instance has at most one worker running or unjoined: a
\* frame that keeps the instance never detaches a thread (no spawn
\* overwrites a held handle), and whenever the current step changes the
\* instance is left without an outstanding worker.
C12_OneWorkerPerInstance ==
    [][/\ (KeepsPage /\ current_page' # current_page) => orphans' = orphans
       /\ StepChanges => current_page'.background_thread = None]_vars

\* The install step of the system-firmware wizard with its worker running.
C12_Witness ==
    /\ HasPage
    /\ current_page.kind = "fw"
    /\ current_page.current_step = "InstallFirmware"
    /\ current_page.background_thread # None
    /\ current_page.background_thread[1].kind = "install"

\* An operation of the current instance has failed: its error is
\* outstanding, or its worker has panicked.
OperationFailed ==
    /\ HasPage
    /\ \/ page_error # None
       \/ /\ current_page.background_thread # None
          /\ current_page.background_thread[1].pc = "panicked"

\* C13: after an operation of a wizard instance has failed, that instance
\* never spawns a worker again and never changes its step; the failure
\* stays with the instance until the instance is discarded.
C13_NoRetryAfterFailure ==
    [][(OperationFailed /\ KeepsPage) =>
          /\ ~Spawns
          /\ current_page'.current_step = current_page.current_step
          /\ OperationFailed']_vars

\* The archive download of a driver-station wizard has failed and was reported.
C13_Witness ==
    /\ HasPage
    /\ current_page.kind = "ds"
    /\ current_page.current_step = "DownloadArchive"
    /\ current_page.archive_path = None
    /\ current_page.background_thread = None
    /\ page_error = Some("Background thread failed")

\* The install threads that still have a sub-operation or their send to
\* execute, owned by the page or detached, by closure, statement and the
\* device operations invoked so far.
LiveInstalls ==
    LET own == IF HasPage /\ current_page.background_thread # None
                  /\ current_page.background_thread[1].kind = "install"
                  /\ current_page.background_thread[1].pc \notin {"sent", "done", "panicked"}
               THEN SetToBag({Orphaned(current_page.background_thread[1])})
               ELSE EmptyBag
        detached == [w \in {x \in BagToSet(orphans) : x.kind = "install"} |-> orphans[w]]
    IN own (+) detached

\* This step starts an install thread.
SpawnsInstall == Spawns /\ current_page'.background_thread[1].kind = "install"

\* C14: once an install thread has started, no frame (Start Over and Ok
\* included) stops or alters it: only its own steps change where it is, and
\* it keeps being able to run, so unless installs are started again and
\* again, every install thread reaches its end.
C14_InstallRunsToEnd ==
    /\ [][~(WorkerStep \/ OrphanStep) => (LiveInstalls \sqsubseteq LiveInstalls')]_vars
    /\ ([]<>(LiveInstalls = EmptyBag) \/ []<><<SpawnsInstall>>_vars)

\* A driver-station install thread whose page was dropped is extracting the archive.
C14_Witness ==
    /\ ~HasPage
    /\ \E w \in BagToSet(orphans) :
           w.page = "ds" /\ w.kind = "install" /\ w.pc = "write"

DsSteps ==
    <<"ChooseVersion", "EnterTeamNumbers", "DownloadArchive", "ChooseDrive",
      "InstallSoftware", "RemoveCard">>

\* Position of a step in a chain of steps (0 if absent).
StepIndex(chain, step) ==
    IF \E i \in 1..Len(chain) : chain[i] = step
    THEN CHOOSE i \in 1..Len(chain) : chain[i] = step
    ELSE 0

ExpectedErrors ==
    {"Expected software_version to not be None.",
     "Expected archive_path to not be None.",
     "Expected selected_drive to not be None.",
     "Expected install_finished_receiver to not be None.",
     "Expected receiver to not be None."}

\* C15: in the driver-station wizard a step is current only when the
\* results it depends on are stored: past ChooseVersion a release is
\* selected, past EnterTeamNumbers the team-number list is non-empty, from
\* ChooseDrive on the archive path is stored, in InstallSoftware a drive is
\* selected; no "Expected ... to not be None" error is ever raised.
C15_StepsHaveTheirInputs ==
    /\ (HasPage /\ current_page.kind = "ds") =>
          LET i == StepIndex(DsSteps, current_page.current_step)
          IN /\ i >= 1
             /\ i > 1 => current_page.software_version # None
             /\ i > 2 => current_page.team_numbers # <<>>
             /\ i > 3 => current_page.archive_path # None
             /\ i = 5 => current_page.selected_drive # None
    /\ (page_error # None => page_error[1] \notin ExpectedErrors)

\* The driver-station install is running on the first card.
C15_Witness ==
    /\ HasPage
    /\ current_page.kind = "ds"
    /\ current_page.current_step = "InstallSoftware"
    /\ current_page.team_number_index = 0
    /\ page_error = None
    /\ current_page.background_thread # None
    /\ current_page.background_thread[1].pc = "flush"

FwSteps ==
    <<"ChooseVersion", "ChooseBoardRevision", "DownloadFirmware", "ChooseDrive",
      "InstallFirmware", "PostInstall">>

ScSteps ==
    <<"ChooseVersion", "DownloadFirmware", "ChooseDrive", "InstallFirmware", "PostInstall">>

StepsOf(kind) ==
    IF kind = "ds" THEN DsSteps ELSE IF kind = "fw" THEN FwSteps ELSE ScSteps

\* C16: while a wizard instance is kept, its current step changes only to
\* the next step of its chain, or from the terminal step back to
\* ChooseDrive; the instance never turns into another wizard.  Every other
\* change of the active step discards the instance.
C16_StepsFollowTheChain ==
    [][KeepsPage =>
          LET chain == StepsOf(current_page.kind)
              i == StepIndex(chain, current_page.current_step)
              j == StepIndex(chain, current_page'.current_step)
          IN /\ current_page'.kind = current_page.kind
             /\ i >= 1 /\ j >= 1
             /\ \/ j = i
                \/ j = i + 1
                \/ i = Len(chain) /\ chain[j] = "ChooseDrive"]_vars

\* The second card of a driver-station wizard has been installed: the
\* backward edge and then the forward chain were taken.
C16_Witness ==
    /\ HasPage
    /\ current_page.kind = "ds"
    /\ current_page.current_step = "RemoveCard"
    /\ current_page.team_number_index = 1

\* The next frame will consume the completion of the page's worker: the
\* system-firmware page looks for the message, the other two for a
\* terminated thread.
CompletionReady(p) ==
    /\ p.background_thread # None
    /\ IF p.kind = "fw"
       THEN LET rx == p[ReceiverOf("fw", p.background_thread[1].kind)]
            IN rx # None /\ rx[1] # <<>>
       ELSE is_finished(p.background_thread[1])

\* A device-chooser step is current and the page is being run.
AtChooseDrive ==
    /\ HasPage
    /\ current_page.current_step = "ChooseDrive"
    /\ page_error = None

\* C17: on a device-chooser step, Refresh clears the listed and the
\* selected drive without spawning; the next frame of a chooser with no
\* list and no worker spawns one enumeration worker; while an enumeration
\* worker is outstanding no list is present and, until the frame that
\* consumes its result, a click on Refresh has no effect of its own.
C17_RefreshReEnumerates ==
    /\ [][(AtChooseDrive /\ current_page.available_drives # None /\ ClickRefresh) =>
             current_page' = [current_page EXCEPT !.available_drives = None,
                                                  !.selected_drive = None]]_vars
    /\ [][(/\ AtChooseDrive
           /\ current_page.available_drives = None
           /\ current_page.background_thread = None
           /\ KeepsPage
           /\ current_page' # current_page) =>
              current_page' =
                  [current_page EXCEPT
                      !.drive_list_receiver = Some(<<>>),
                      !.background_thread =
                          Some(Worker(current_page.kind, "drives", "run"))]]_vars
    /\ []((AtChooseDrive /\ current_page.background_thread # None) =>
             (/\ current_page.background_thread[1].kind = "drives"
              /\ current_page.available_drives = None
              /\ current_page.selected_drive = None
              /\ (~CompletionReady(current_page) =>
                     Run(current_page, Click("refresh")) = Run(current_page, NoInput))))

\* A drive is selected on a device-chooser step and Refresh clears it.
C17_Witness ==
    /\ AtChooseDrive
    /\ current_page.kind = "sc"
    /\ current_page.selected_drive # None
    /\ Run(current_page, Click("refresh")).p.available_drives = None
    /\ Run(current_page, Click("refresh")).p.selected_drive = None

AtEnterTeamNumbers ==
    /\ HasPage
    /\ current_page.kind = "ds"
    /\ current_page.current_step = "EnterTeamNumbers"
    /\ page_error = None

\* The text holds a character that is neither an ASCII digit nor a newline.
TextMalformed(text) == \E i \in 1..Len(text) : text[i] \notin {"1", "\n"}

\* C18: in EnterTeamNumbers malformed text never raises a wizard error; it
\* leaves the team-number list empty, Next is enabled exactly when the list
\* is non-empty, so the step is not left with malformed text, and every
\* entry of the list is a non-empty string of digits.
C18_MalformedTeamNumbers ==
    /\ [][(AtEnterTeamNumbers /\ KeepsPage) => page_error' = None]_vars
    /\ [](AtEnterTeamNumbers =>
             /\ TextMalformed(current_page.team_numbers_text) =>
                    current_page.team_numbers = <<>>
             /\ (Run(current_page, Click("next")).p.current_step = "DownloadArchive")
                    <=> (current_page.team_numbers # <<>>))
    /\ []((HasPage /\ current_page.kind = "ds") =>
             \A i \in 1..Len(current_page.team_numbers) :
                 /\ current_page.team_numbers[i] # <<>>
                 /\ \A k \in 1..Len(current_page.team_numbers[i]) :
                        current_page.team_numbers[i][k] = "1")

\* A team number was entered and then a letter was typed after it.
C18_Witness ==
    /\ AtEnterTeamNumbers
    /\ Len(current_page.team_numbers_text) >= 2
    /\ current_page.team_numbers_text[1] = "1"
    /\ TextMalformed(current_page.team_numbers_text)
    /\ current_page.team_numbers = <<>>

AutoAdvanceSteps ==
    {"DownloadArchive", "DownloadFirmware", "InstallSoftware", "InstallFirmware"}

ManualSteps == {"ChooseVersion", "ChooseDrive"}

\* The step after the current one in the chain of the page.
NextStepOf(p) ==
    LET chain == StepsOf(p.kind)
    IN chain[StepIndex(chain, p.current_step) + 1]

\* C19: a download or install step advances to its successor in the frame
\* that consumes the worker's successful completion, with no input, and
\* changes its step in no other frame; a version-choice or drive-choice
\* step never changes the current step in a frame without a click.
C19_AutoAndManualAdvance ==
    /\ []((/\ HasPage
           /\ page_error = None
           /\ current_page.current_step \in AutoAdvanceSteps
           /\ CompletionReady(current_page)
           /\ current_page.background_thread[1].pc # "panicked") =>
              LET r == Run(current_page, NoInput)
              IN /\ r.err = None
                 /\ ~r.panic
                 /\ r.p.background_thread = None
                 /\ r.p.current_step = NextStepOf(current_page))
    /\ [][(StepChanges /\ current_page.current_step \in AutoAdvanceSteps) =>
             /\ CompletionReady(current_page)
             /\ current_page'.background_thread = None
             /\ current_page'.current_step = NextStepOf(current_page)]_vars
    /\ []((/\ HasPage
           /\ page_error = None
           /\ current_page.current_step \in ManualSteps) =>
              Run(current_page, NoInput).p.current_step = current_page.current_step)

\* The archive download has finished and the next frame will consume it.
C19_Witness ==
    /\ HasPage
    /\ page_error = None
    /\ current_page.kind = "ds"
    /\ current_page.current_step = "DownloadArchive"
    /\ current_page.background_thread # None
    /\ current_page.background_thread[1].pc = "done"

WorkerKinds == {"releases", "download", "drives", "install"}

\* The session field that holds the result of a worker of the given kind.
ValueField(p, kind) ==
    IF kind = "releases" THEN "available_releases"
    ELSE IF kind = "download"
    THEN (IF p.kind = "ds" THEN "archive_path" ELSE "firmware_path")
    ELSE "available_drives"

\* This step stores a result of the given kind in the instance it keeps
\* (for an install: it leaves the install step for its successor).
Stores(kind) ==
    /\ KeepsPage
    /\ IF kind = "install"
       THEN /\ current_page.current_step \in {"InstallSoftware", "InstallFirmware"}
            /\ StepChanges
       ELSE /\ current_page'[ValueField(current_page, kind)] # None
            /\ current_page'[ValueField(current_page, kind)]
                   # current_page[ValueField(current_page, kind)]

\* Before this step the page held a worker of the given kind, spawned by
\* this instance, whose one message lay in the channel created with it.
HeldDelivery(kind) ==
    /\ current_page.background_thread # None
    /\ current_page.background_thread[1].kind = kind
    /\ current_page.background_thread[1].page = current_page.kind
    /\ current_page.background_thread[1].pc \in {"sent", "done"}
    /\ current_page[ReceiverOf(current_page.kind, kind)] # None
    /\ Len(current_page[ReceiverOf(current_page.kind, kind)][1]) = 1

\* C21: a result is stored in a wizard instance only by a frame that found,
\* held by that instance, a worker of the matching step that had sent its
\* message into the channel created at its spawn, and the value stored is
\* that message; every spawn creates an empty channel; a detached thread
\* never changes a page.
C21_ResultsComeFromOwnWorker ==
    /\ [][\A kind \in WorkerKinds :
             Stores(kind) =>
                 /\ HeldDelivery(kind)
                 /\ kind # "install" =>
                        current_page'[ValueField(current_page, kind)]
                            = current_page[ReceiverOf(current_page.kind, kind)][1]]_vars
    /\ [][Spawns =>
             current_page'[ReceiverOf(current_page'.kind,
                                      current_page'.background_thread[1].kind)]
                 = Some(<<>>)]_vars
    /\ [][OrphanStep => current_page' = current_page]_vars

\* A wizard opened after another was discarded has stored its release list
\* while the discarded wizard's fetch is still running.
C21_Witness ==
    /\ HasPage
    /\ current_page.available_releases # None
    /\ \E w \in BagToSet(orphans) : w.kind = "releases" /\ w.pc = "run"

\* Receiver and handle of the page go together: the receiver of a kind of
\* worker is held exactly when a worker of that kind is held.
SlotConsistent(p) ==
    \A kind \in WorkerKinds :
        (p[ReceiverOf(p.kind, kind)] # None)
            <=> (p.background_thread # None /\ p.background_thread[1].kind = kind)

\* C22: whenever a wizard is open and no error is outstanding, each
\* receiver is present exactly when the handle of its worker is present;
\* the frame that consumes a worker's result leaves the page without that
\* handle and without that receiver.
C22_SlotConsistent ==
    /\ []((HasPage /\ page_error = None) => SlotConsistent(current_page))
    /\ [][\A kind \in WorkerKinds :
             Stores(kind) =>
                 /\ current_page'.background_thread = None
                 /\ current_page'[ReceiverOf(current_page.kind, kind)] = None]_vars

\* The system-firmware install has been consumed: the page is at
\* PostInstall with neither handle nor receiver.
C22_Witness ==
    /\ HasPage
    /\ page_error = None
    /\ current_page.kind = "fw"
    /\ current_page.current_step = "PostInstall"
    /\ current_page.background_thread = None
    /\ current_page.install_finished_receiver = None

AtChooseVersion ==
    /\ HasPage
    /\ current_page.current_step = "ChooseVersion"
    /\ page_error = None

\* The selected release, if any, is an entry of the page's release list.
SelectionInList(p) ==
    p.software_version # None =>
        /\ p.available_releases # None
        /\ \E i \in 1..Len(p.available_releases[1]) :
               p.available_releases[1][i] = p.software_version[1]

\* C23: the frame that stores the release list leaves a release selected,
\* and without a click on the list that release is the one marked latest;
\* a selected release changes only by a click on the list in the
\* version-choice step, never by a frame without one; the selected release
\* is always an entry of the stored list.
C23_LatestPreselectedOnce ==
    /\ []((AtChooseVersion /\ current_page.available_releases = None) =>
             LET r == Run(current_page, NoInput)
             IN (r.err = None /\ ~r.panic /\ r.p.available_releases # None) =>
                    /\ r.p.software_version # None
                    /\ r.p.software_version = FindLatest(r.p.available_releases[1])
                    /\ r.p.software_version[1].latest)
    /\ [][(KeepsPage /\ current_page.available_releases = None
              /\ current_page'.available_releases # None) =>
             current_page'.software_version # None]_vars
    /\ []((HasPage /\ page_error = None /\ current_page.software_version # None) =>
             Run(current_page, NoInput).p.software_version = current_page.software_version)
    /\ [][(KeepsPage /\ current_page.software_version # None
              /\ current_page'.software_version # current_page.software_version) =>
             (ClickSelect /\ current_page.current_step = "ChooseVersion")]_vars
    /\ [](HasPage => SelectionInList(current_page))

\* The operator has picked a release other than the latest one and the
\* version-choice step keeps showing it.
C23_Witness ==
    /\ AtChooseVersion
    /\ current_page.software_version # None
    /\ current_page.software_version # FindLatest(current_page.available_releases[1])
    /\ ~current_page.software_version[1].latest

\* The step in which the page downloads its artifact.
DownloadStep(kind) == IF kind = "ds" THEN "DownloadArchive" ELSE "DownloadFirmware"

\* Position of the page's current step relative to its download step.
PastDownload(p) ==
    StepIndex(StepsOf(p.kind), p.current_step)
        > StepIndex(StepsOf(p.kind), DownloadStep(p.kind))

\* The instance has not started its download yet: it is before the download
\* step, or on it with nothing spawned and nothing failed.
DownloadPending(p) ==
    \/ StepIndex(StepsOf(p.kind), p.current_step)
           < StepIndex(StepsOf(p.kind), DownloadStep(p.kind))
    \/ /\ p.current_step = DownloadStep(p.kind)
       /\ p.background_thread = None
       /\ page_error = None

\* What the page has chosen and downloaded: release, artifact path,
\* firmware variant and team numbers.
Artifact(p) ==
    <<p.software_version,
      p[ValueField(p, "download")],
      IF p.kind = "fw" THEN p.selected_firmware ELSE None,
      IF p.kind = "ds" THEN p.team_numbers ELSE <<>>>>

SpawnsDownload == Spawns /\ current_page'.background_thread[1].kind = "download"

\* C24: a frame that changes the page on its terminal step changes exactly
\* the current step (to ChooseDrive), the selected and the listed drives
\* (cleared) and, in the driver-station wizard, the target index; past the
\* download step the release, the artifact path, the firmware variant and
\* the team numbers never change; an instance starts its download only
\* while it is pending and is never pending again afterwards, so it spawns
\* at most one download worker.
C24_BackwardLoopKeepsArtifact ==
    /\ [][(/\ KeepsPage
           /\ current_page.current_step \in {"RemoveCard", "PostInstall"}
           /\ current_page' # current_page) =>
              current_page' =
                  IF current_page.kind = "ds"
                  THEN [current_page EXCEPT !.team_number_index = @ + 1,
                                            !.selected_drive = None,
                                            !.available_drives = None,
                                            !.current_step = "ChooseDrive"]
                  ELSE [current_page EXCEPT !.selected_drive = None,
                                            !.available_drives = None,
                                            !.current_step = "ChooseDrive"]]_vars
    /\ [][(KeepsPage /\ PastDownload(current_page)) =>
             /\ PastDownload(current_page')
             /\ Artifact(current_page') = Artifact(current_page)]_vars
    /\ [][KeepsPage =>
             /\ SpawnsDownload =>
                    (DownloadPending(current_page) /\ ~DownloadPending(current_page)')
             /\ ~DownloadPending(current_page) => ~DownloadPending(current_page)']_vars

\* The drives have been listed again for the second card of a
\* driver-station wizard; the archive of the first card is still stored.
C24_Witness ==
    /\ HasPage
    /\ page_error = None
    /\ current_page.kind = "ds"
    /\ current_page.current_step = "ChooseDrive"
    /\ current_page.team_number_index = 1
    /\ current_page.available_drives # None
    /\ current_page.archive_path # None

\* The steps of the driver-station wizard that index the team-number list.
IndexingSteps == {"ChooseDrive", "InstallSoftware", "RemoveCard"}

\* C25: in the driver-station wizard, on ChooseDrive, InstallSoftware and
\* RemoveCard the team-number list is non-empty and the target index is
\* less than its length, so team_numbers[team_number_index] is in bounds,
\* len() - 1 does not underflow and no frame panics there; the index never
\* decreases while the instance is kept.
C25_TeamIndexInBounds ==
    /\ []((HasPage /\ current_page.kind = "ds"
              /\ current_page.current_step \in IndexingSteps) =>
             /\ Len(current_page.team_numbers) >= 1
             /\ current_page.team_number_index >= 0
             /\ current_page.team_number_index < Len(current_page.team_numbers)
             /\ TeamNumberInBounds(current_page)
             /\ \A c \in {"none", "next", "refresh"} :
                    ~Run(current_page, Click(c)).panic)
    /\ [][(KeepsPage /\ current_page.kind = "ds") =>
             current_page'.team_number_index >= current_page.team_number_index]_vars

\* The card of the second of two team numbers is being written.
C25_Witness ==
    /\ HasPage
    /\ current_page.kind = "ds"
    /\ current_page.current_step = "InstallSoftware"
    /\ Len(current_page.team_numbers) = 2
    /\ current_page.team_number_index = 1
    /\ current_page.background_thread # None
    /\ current_page.background_thread[1].pc = "write"

InstallSteps == {"InstallSoftware", "InstallFirmware"}

\* The selected drive, if any, is one of the listed drives (same path).
DriveInList(p) ==
    p.selected_drive # None =>
        /\ p.available_drives # None
        /\ \E i \in 1..Len(p.available_drives[1]) :
               SameDrive(Some(p.available_drives[1][i]), p.selected_drive)

\* C26: in every wizard a drive is selected only while a drive list is
\* stored, and it is then one of the listed drives; a frame that clears the
\* list clears the selection; the install step is entered only by an
\* instance that holds no worker, and the install spawn, guarded only by
\* the install receiver being absent, never replaces a held handle.
C26_SelectedDriveInList ==
    /\ [](HasPage => DriveInList(current_page))
    /\ [][(KeepsPage /\ current_page.available_drives # None
              /\ current_page'.available_drives = None) =>
             current_page'.selected_drive = None]_vars
    /\ [][(StepChanges /\ current_page'.current_step \in InstallSteps) =>
             /\ current_page.selected_drive # None
             /\ current_page.background_thread = None
             /\ current_page'.background_thread = None]_vars
    /\ []((HasPage /\ page_error = None /\ current_page.current_step \in InstallSteps
              /\ current_page.install_finished_receiver = None) =>
             /\ current_page.background_thread = None
             /\ \A io_ok \in BOOLEAN :
                    Run(current_page, Input("none", 0, None, io_ok)).detached = None)

\* The starter-code wizard has just entered its install step with the
\* second listed drive selected; nothing has been spawned yet.
C26_Witness ==
    /\ HasPage
    /\ page_error = None
    /\ current_page.kind = "sc"
    /\ current_page.current_step = "InstallFirmware"
    /\ current_page.selected_drive = Some(DriveB)
    /\ current_page.install_finished_receiver = None
    /\ current_page.background_thread = None

AtDs == HasPage /\ current_page.kind = "ds"

\* The install for the entry at the current index has been started (or
\* given up on): the install step has created its channel, or the wizard
\* is already asking for the card to be removed.
InstallStarted(p) ==
    \/ p.current_step = "InstallSoftware" /\ p.install_finished_receiver # None
    \/ p.current_step = "RemoveCard"

C28_AtMostOneInstallRunning == BagCardinality(LiveInstalls) <= 1

\* The channel of the worker the page holds, as a sequence of the messages
\* sent and not yet received.
HeldChannel(p) == p[ReceiverOf(p.kind, p.background_thread[1].kind)]

TimeoutError == "channel is empty and sending half is closed"

\* C29: while its wizard is alive, a worker that has returned from its
\* send has exactly one message in its channel until the page consumes it,
\* a worker that has not (running or panicked) has none; so the receive
\* that follows a successful join always finds the message and its error
\* path is never taken.
C29_FinishedWorkerHasSent ==
    /\ []((HasPage /\ current_page.background_thread # None) =>
             /\ HeldChannel(current_page) # None
             /\ Len(HeldChannel(current_page)[1])
                    = IF current_page.background_thread[1].pc \in {"sent", "done"}
                      THEN 1 ELSE 0)
    /\ [](page_error # Some(TimeoutError))
    /\ []((HasPage /\ page_error = None /\ current_page.kind \in {"ds", "sc"}
              /\ current_page.background_thread # None
              /\ current_page.background_thread[1].pc = "done") =>
             LET r == TakeJoinRecv(current_page,
                          ReceiverOf(current_page.kind,
                                     current_page.background_thread[1].kind))
             IN r.taken /\ r.err = None
                /\ (current_page.background_thread[1].kind # "install" => r.val # None))

\* The release fetch of a starter-code wizard has ended normally and its
\* message waits in the channel.
C29_Witness ==
    /\ HasPage
    /\ page_error = None
    /\ current_page.kind = "sc"
    /\ current_page.current_step = "ChooseVersion"
    /\ current_page.background_thread # None
    /\ current_page.background_thread[1].pc = "done"
    /\ Len(current_page.available_releases_receiver[1]) = 1

\* What the operator can do in one frame of the system-firmware wizard.
FwInputs ==
    {NoInput, Click("next"), Click("refresh")}
        \cup {Input("select", idx, None, TRUE) : idx \in 1..MaxListLen}

\* C30: the render thread never panics, and in every reachable state of
\* the system-firmware wizard no frame, whatever the operator clicks,
\* applies an unwrap to an absent value or to a failed join.
C30_FwRenderNeverPanics ==
    /\ [](~crashed)
    /\ []((HasPage /\ current_page.kind = "fw" /\ page_error = None) =>
             \A in \in FwInputs : ~Run(current_page, in).panic)

\* The copy of the system-firmware install has sent its message: the next
\* frame takes the handle, unwraps it and unwraps the join result.
C30_Witness ==
    /\ HasPage
    /\ current_page.kind = "fw"
    /\ current_page.current_step = "InstallFirmware"
    /\ current_page.background_thread # None
    /\ current_page.background_thread[1].pc = "sent"
    /\ current_page.install_finished_receiver = Some(<<"unit">>)
    /\ Run(current_page, NoInput).p.current_step = "PostInstall"

\* The wizard asks for the last card to be removed, and the installs that
\* ran to their end are exactly those of the team-number list, in order.
AllCardsDone ==
    /\ AtDs
    /\ page_error = None
    /\ current_page.current_step = "RemoveCard"
    /\ current_page.team_number_index = Len(current_page.team_numbers) - 1
    /\ installed = current_page.team_numbers

AtFw == HasPage /\ current_page.kind = "fw"

\* The asset is listed in the release and is named gss-<revision>-<tag>.uf2
\* for the tag of that release.
FirmwareOf(asset, release) ==
    /\ \E i \in 1..Len(release.assets) : release.assets[i] = asset
    /\ StartsWith(asset.name, <<"g", "s", "s", "-">>)
    /\ EndsWith(asset.name, <<"-">> \o release.tag_name \o <<".", "u", "f", "2">>)

\* C32: in the system-firmware wizard a selected firmware asset is always
\* an asset of the selected release named gss-...-<tag>.uf2 for that
\* release's tag; from DownloadFirmware on such an asset is selected; the
\* download worker holds exactly the selected asset and the selected
\* release.
C32_SelectedFirmwareMatchesRelease ==
    /\ []((AtFw /\ current_page.selected_firmware # None) =>
             /\ current_page.software_version # None
             /\ FirmwareOf(current_page.selected_firmware[1],
                           current_page.software_version[1]))
    /\ []((AtFw /\ StepIndex(FwSteps, current_page.current_step) >= 3) =>
             current_page.selected_firmware # None)
    /\ []((AtFw /\ current_page.background_thread # None
              /\ current_page.background_thread[1].kind = "download") =>
             /\ current_page.background_thread[1].asset = current_page.selected_firmware
             /\ current_page.background_thread[1].release = current_page.software_version)
    /\ [][(AtFw /\ KeepsPage /\ StepIndex(FwSteps, current_page.current_step) >= 3) =>
             /\ current_page'.selected_firmware = current_page.selected_firmware
             /\ current_page'.software_version = current_page.software_version]_vars

\* The firmware for the second board revision is being downloaded.
C32_Witness ==
    /\ AtFw
    /\ current_page.current_step = "DownloadFirmware"
    /\ current_page.selected_firmware = Some(FwAssetB)
    /\ current_page.background_thread # None
    /\ current_page.background_thread[1].kind = "download"
    /\ current_page.background_thread[1].asset = Some(FwAssetB)

====
